---- MODULE Spec2Model ----
(***************************************************************************)
(* The github-webhook service of go-neb: routing of inbound webhook        *)
(* deliveries to rooms (OnReceiveWebhook), and the two-phase               *)
(* reconciliation of the provider's hooks with the service configuration   *)
(* (Register, PostRegister, createHook, deleteHook, repoList).             *)
(*                                                                         *)
(* A Go string is modelled as a sequence of one-character strings, so that *)
(* strings.Split, strings.Count and strings.EqualFold are computed.        *)
(***************************************************************************)
EXTENDS Integers, Sequences, FiniteSets, TLC

VARIABLES
  db,     \* the service stored under this service ID, or NoService
  s,      \* the receiver of the last handler that ran
  old,    \* the oldService argument of the last Register / PostRegister
  pc,     \* "idle", "registered" between Register and PostRegister, or "done"
          \* once the request has been served and before its caller returns
  hooks,  \* the provider: lower-cased owner/repo -> sequence of hooks
  req,    \* the last inbound delivery, as webhook.OnReceiveRequest returned it
  calls,  \* the calls the last handler made on its collaborators, in order
  ret,    \* what the last handler returned / wrote as its response
  inflight \* a delivery whose handler has routed it and has yet to call deleteHook

vars == <<db, s, old, pc, hooks, req, calls, ret, inflight>>

-----------------------------------------------------------------------------
(* Bounds *)

\* the most room/repo bindings one configuration holds, over all its rooms
MaxBindings == 2

-----------------------------------------------------------------------------
(* Strings *)

ToLower(c) ==
  CASE c = "A" -> "a"
    [] c = "B" -> "b"
    [] c = "C" -> "c"
    [] c = "D" -> "d"
    [] c = "X" -> "x"
    [] OTHER -> c

ToLowerStr(str) == [i \in 1..Len(str) |-> ToLower(str[i])]

EqualFold_CaseSensitive(a, b) == a = b

\* strings.EqualFold(a, b)
EqualFold(a, b) ==
  /\ Len(a) = Len(b)
  /\ \A i \in 1..Len(a) : ToLower(a[i]) = ToLower(b[i])

\* strings.Count(str, "/")
Count(str) == Cardinality({i \in 1..Len(str) : str[i] = "/"})

RECURSIVE SplitFrom(_, _, _)
SplitFrom(str, i, cur) ==
  IF i > Len(str) THEN <<cur>>
  ELSE IF str[i] = "/" THEN <<cur>> \o SplitFrom(str, i + 1, <<>>)
  ELSE SplitFrom(str, i + 1, Append(cur, str[i]))

\* strings.Split(str, "/")
Split(str) == SplitFrom(str, 1, <<>>)

Range(seq) == {seq[i] : i \in 1..Len(seq)}

\* every order in which a Go range loop may visit the set S
Perms(S) ==
  {f \in [1..Cardinality(S) -> S] : \A i, j \in 1..Cardinality(S) : i # j => f[i] # f[j]}

-----------------------------------------------------------------------------
(* The names and values the model draws its inputs from *)

Repo_ab  == <<"a", "/", "b">>
Repo_Ab  == <<"A", "/", "b">>
Repo_cd  == <<"c", "/", "d">>
Name_x   == <<"x">>
Name_a_  == <<"a", "/">>
Name__b  == <<"/", "b">>
Name_abc == <<"a", "/", "b", "/", "c">>

RoomIDs == {"!r1", "!r2"}

EventTypes == {"push", "issues", "pull_request"}

EventLists == {<<>>, <<"push">>, <<"issues">>, <<"issues", "push">>}

\* the repositories that exist on the provider, which names them without
\* regard to letter case
ProviderRepos == {Repo_ab, Repo_cd}

WebhookEndpointURL == "https://neb/services/hooks/c2VydmljZQ"

-----------------------------------------------------------------------------
(* githubWebhookService *)

\* Rooms: room_id => { Repos: owner/repo => { Events } }, holding the bindings B
\* (a set of <<room, key>>) of the rooms R, with the event lists ev
MakeRooms(R, B, ev) ==
  [r \in R |->
     [Repos |-> [k \in {p[2] : p \in {q \in B : q[1] = r}} |->
                   [Events |-> ev[<<r, k>>]]]]]

RoomsMaps(Keys, Lists) ==
  UNION {UNION {{MakeRooms(R, B, ev) : ev \in [B -> Lists]} :
                 B \in {X \in SUBSET (R \X Keys) : Cardinality(X) <= MaxBindings}} :
          R \in SUBSET RoomIDs}

githubWebhookService(realm, user, rooms) ==
  [kind               |-> "github-webhook",
   webhookEndpointURL |-> WebhookEndpointURL,
   ClientUserID       |-> user,
   RealmID            |-> realm,
   Rooms              |-> rooms]

\* the echo service: another types.Service, which has no rooms
echoService ==
  [kind |-> "echo", webhookEndpointURL |-> "", ClientUserID |-> "", RealmID |-> "",
   Rooms |-> <<>>]

\* a nil types.Service / no service stored
NoService ==
  [kind |-> "nil", webhookEndpointURL |-> "", ClientUserID |-> "", RealmID |-> "",
   Rooms |-> <<>>]

\* the <<room, key>> pairs of a Rooms map
Bindings(rooms) ==
  UNION {{<<r, k>> : k \in DOMAIN rooms[r].Repos} : r \in DOMAIN rooms}

\* the orders in which the nested range loops over Rooms and Repos may visit
\* the bindings: any order of the rooms, and within a room any order of its keys
IterOrders(rooms) ==
  {p \in Perms(Bindings(rooms)) :
     \A i, j, k \in 1..Len(p) :
        (i < j /\ j < k /\ p[i][1] = p[k][1]) => p[j][1] = p[i][1]}

-----------------------------------------------------------------------------
(* The call log *)

Call(fn, room, repo, res) == [fn |-> fn, room |-> room, repo |-> repo, res |-> res]

NoRequest == [verified |-> FALSE, code |-> 0, evType |-> "", FullName |-> <<>>]

NoReturn == [op |-> "", status |-> 0, err |-> ""]

NoDelivery == [state |-> "none", svc |-> NoService, segs |-> <<>>]

-----------------------------------------------------------------------------
(* The provider's hooks *)

\* a hook of the provider; of its config only the url is read by the service
Hook(id, url) == [ID |-> id, name |-> "web", url |-> url]

StringURL(u) == [kind |-> "string", val |-> u]

FindHook_FirstHook(list, endpoint) == IF list = <<>> THEN 0 ELSE 1

\* the index of the first hook of the list whose config url is a string equal
\* to the endpoint, 0 when there is none
FindHook(list, endpoint) ==
  LET match == {i \in 1..Len(list) :
                  /\ list[i].url.kind # "nil"
                  /\ list[i].url.kind = "string"
                  /\ list[i].url.val = endpoint}
  IN IF match = {} THEN 0 ELSE CHOOSE i \in match : \A j \in match : i <= j

RemoveAt(list, i) == [j \in 1..(Len(list) - 1) |-> IF j < i THEN list[j] ELSE list[j + 1]]

FreshID(list) ==
  IF list = <<>> THEN 1
  ELSE 1 + (CHOOSE m \in {list[i].ID : i \in 1..Len(list)} :
              \A i \in 1..Len(list) : list[i].ID <= m)

DeleteOutcomes == {"normal", "no_token", "list_error", "delete_error"}

\* deleteHook(owner, repo), where e says what the credential store and the
\* provider do: the error returned, the calls made and the provider's hooks
deleteHook(svc, owner, repo, e, hk) ==
  LET full  == owner \o <<"/">> \o repo
      key   == ToLowerStr(full)
      entry(err) == Call("deleteHook", "", full, err)
      list  == Call("ListHooks", "", full, "ok")
  IN
  IF e = "no_token" THEN
    [err |-> "no authenticated client exists for user ID",
     calls |-> <<entry("no authenticated client exists for user ID")>>, hooks |-> hk]
  ELSE IF e = "list_error" \/ key \notin DOMAIN hk THEN
    [err |-> "ListHooks failed",
     calls |-> <<entry("ListHooks failed"), Call("ListHooks", "", full, "error")>>,
     hooks |-> hk]
  ELSE
    LET i == FindHook(hk[key], svc.webhookEndpointURL) IN
    IF i = 0 THEN
      [err |-> "Failed to find hook with endpoint",
       calls |-> <<entry("Failed to find hook with endpoint"), list>>, hooks |-> hk]
    ELSE IF e = "delete_error" THEN
      [err |-> "DeleteHook failed",
       calls |-> <<entry("DeleteHook failed"), list,
                   Call("DeleteHook", "", full, "error")>>,
       hooks |-> hk]
    ELSE
      [err |-> "",
       calls |-> <<entry(""), list, Call("DeleteHook", "", full, "ok")>>,
       hooks |-> [hk EXCEPT ![key] = RemoveAt(hk[key], i)]]

-----------------------------------------------------------------------------
(* OnReceiveWebhook *)

\* the inner loop over repoConfig.Events
notifyRoom(events, evType) == \E i \in 1..Len(events) : evType = events[i]

\* the bindings of it whose key equals the delivered full name, ignoring case
Matching(svc, r, p) == EqualFold(r.FullName, p[2])

\* the bindings the delivery is sent for, in the order it visits them
Notified(svc, r, it) ==
  LET Test(p) == /\ Matching(svc, r, p)
                 /\ notifyRoom(svc.Rooms[p[1]].Repos[p[2]].Events, r.evType)
  IN SelectSeq(it, Test)

repoExistsInConfig_WhenNotified(svc, r, it) == Len(Notified(svc, r, it)) > 0

\* repoExistsInConfig once the loops are over: "even if we don't notify for it"
repoExistsInConfig(svc, r, it) == \E i \in 1..Len(it) : Matching(svc, r, it[i])

SendCall(room, ok) == Call("SendMessageEvent", room, <<>>, IF ok THEN "ok" ELSE "error")

RECURSIVE Sends_StopAtError(_, _)
Sends_StopAtError(notified, sendOK) ==
  IF notified = <<>> THEN <<>>
  ELSE IF ~sendOK[Head(notified)[1]] THEN <<SendCall(Head(notified)[1], FALSE)>>
  ELSE <<SendCall(Head(notified)[1], TRUE)>> \o Sends_StopAtError(Tail(notified), sendOK)

\* the SendMessageEvent calls: a failed one is logged and the loops go on
Sends(notified, sendOK) ==
  [i \in 1..Len(notified) |-> SendCall(notified[i][1], sendOK[notified[i][1]])]

Rejected_Status400(r, hk) == [status |-> 400, calls |-> <<>>, hooks |-> hk]

\* webhook.OnReceiveRequest returned an error: its code is written, and return
Rejected(r, hk) == [status |-> r.code, calls |-> <<>>, hooks |-> hk]

\* the handler: it is the order the loops visit the bindings in, sendOK says
\* which rooms SendMessageEvent succeeds for, e what deleteHook meets
OnReceiveWebhookRun(svc, r, it, sendOK, e, hk) ==
  IF ~r.verified THEN
    Rejected(r, hk)
  ELSE
    LET sends == Sends(Notified(svc, r, it), sendOK)
        segs  == Split(r.FullName)
    IN
    IF ~repoExistsInConfig(svc, r, it) THEN
      IF Len(segs) # 2 THEN
        [status |-> 400, calls |-> sends, hooks |-> hk]
      ELSE
        LET d == deleteHook(svc, segs[1], segs[2], e, hk) IN
        [status |-> 200, calls |-> sends \o d.calls, hooks |-> d.hooks]
    ELSE
      [status |-> 200, calls |-> sends, hooks |-> hk]

\* what webhook.OnReceiveRequest may return
Requests ==
  {[verified |-> FALSE, code |-> c, evType |-> "", FullName |-> <<>>] :
      c \in {200, 400, 403, 500}}
  \cup
  {[verified |-> TRUE, code |-> 0, evType |-> t, FullName |-> n] :
      t \in EventTypes,
      n \in {Repo_ab, Repo_Ab, Repo_cd, Name_x, Name_a_, Name__b, Name_abc}}

NotifiedRooms(svc, r) ==
  {p[1] : p \in {q \in Bindings(svc.Rooms) :
                   /\ r.verified
                   /\ Matching(svc, r, q)
                   /\ notifyRoom(svc.Rooms[q[1]].Repos[q[2]].Events, r.evType)}}

\* whether the handler reaches its deleteHook call
Deletes(svc, r) ==
  /\ r.verified
  /\ \A q \in Bindings(svc.Rooms) : ~Matching(svc, r, q)
  /\ Len(Split(r.FullName)) = 2

OnReceiveWebhook ==
  /\ pc = "idle"
  /\ db.kind = "github-webhook"
  /\ \E r \in Requests, it \in IterOrders(db.Rooms) :
     \E sendOK \in [NotifiedRooms(db, r) -> BOOLEAN],
        e \in IF Deletes(db, r) THEN DeleteOutcomes ELSE {"normal"} :
        LET out == OnReceiveWebhookRun(db, r, it, sendOK, e, hooks) IN
        /\ s' = db
        /\ req' = r
        /\ calls' = out.calls
        /\ ret' = [op |-> "OnReceiveWebhook", status |-> out.status, err |-> ""]
        /\ hooks' = out.hooks
        /\ pc' = "done"
        /\ UNCHANGED <<db, old, inflight>>

\* the request has been served: the next one starts with an empty call log
EndRequest ==
  /\ pc = "done"
  /\ pc' = "idle"
  /\ s' = NoService
  /\ old' = NoService
  /\ req' = NoRequest
  /\ calls' = <<>>
  /\ ret' = NoReturn
  /\ UNCHANGED <<db, hooks, inflight>>

-----------------------------------------------------------------------------
(* repoList and the delta between two configurations *)

RECURSIVE repoListFrom(_, _, _)
repoListFrom(it, i, repos) ==
  IF i > Len(it) THEN repos
  ELSE
    LET ownerRepo == it[i][2] IN
    IF Count(ownerRepo) # 1 THEN repoListFrom(it, i + 1, repos)
    ELSE IF \E j \in 1..Len(repos) : repos[j] = ownerRepo
      THEN repoListFrom(it, i + 1, repos)
      ELSE repoListFrom(it, i + 1, Append(repos, ownerRepo))

repoList_NoDedup(it) ==
  LET keys == [i \in 1..Len(it) |-> it[i][2]]
      OneSlash(k) == Count(k) = 1
  IN SelectSeq(keys, OneSlash)

\* repoList() of a service whose range loops visit its bindings in the order it
repoList(it) == repoListFrom(it, 1, <<>>)

Difference_Swapped(a, b) ==
  LET OnlyA(x) == x \notin Range(b)
      OnlyB(x) == x \notin Range(a)
  IN [onlyA |-> SelectSeq(b, OnlyB), onlyB |-> SelectSeq(a, OnlyA)]

\* util.Difference(a, b): the elements only in a and the elements only in b
Difference(a, b) ==
  LET OnlyA(x) == x \notin Range(b)
      OnlyB(x) == x \notin Range(a)
  IN [onlyA |-> SelectSeq(a, OnlyA), onlyB |-> SelectSeq(b, OnlyB)]

\* the old service's repos as Register and PostRegister take them: none for a
\* nil old service and for one that is no githubWebhookService
OldRepoList(oldSvc, itOld) ==
  IF oldSvc.kind = "github-webhook" THEN repoList(itOld) ELSE <<>>

AnyOrder(rooms) == CHOOSE it \in IterOrders(rooms) : TRUE

-----------------------------------------------------------------------------
(* createHook *)

\* what the provider's CreateHook may answer besides acting on the request
CreateFailKinds == {"422_other", "422_untyped", "status_error", "no_response"}

\* the message of an error of the provider's ErrorResponse, as its words
HookAlreadyExists == <<"Hook", "already", "exists", "on", "this", "repository">>

UrlIsMissing == <<"url", "is", "missing">>

\* strings.Contains(msg, "already exists"), on words
ContainsAlreadyExists(msg) ==
  \E i \in 1..(Len(msg) - 1) : msg[i] = "already" /\ msg[i + 1] = "exists"

\* what cli.Repositories.CreateHook hands back: the response (absent when the
\* request itself failed) with its status, the error, whether the error is a
\* *github.ErrorResponse and its Errors' messages; and the provider's hooks.
\* The provider keeps one hook per repo and url.
CreateHookResponse(endpoint, key, outcome, hk) ==
  CASE outcome = "no_response" ->
         [answer |-> "no response", nil |-> TRUE, StatusCode |-> 0, err |-> "request failed",
          typed |-> FALSE, Errors |-> <<>>, hooks |-> hk]
    [] outcome = "422_untyped" ->
         [answer |-> "422 untyped", nil |-> FALSE, StatusCode |-> 422, err |-> "422",
          typed |-> FALSE, Errors |-> <<>>, hooks |-> hk]
    [] outcome = "422_other" ->
         [answer |-> "422 other", nil |-> FALSE, StatusCode |-> 422,
          err |-> "422 Validation Failed", typed |-> TRUE, Errors |-> <<UrlIsMissing>>,
          hooks |-> hk]
    [] outcome = "status_error" ->
         [answer |-> "500", nil |-> FALSE, StatusCode |-> 500, err |-> "provider error",
          typed |-> TRUE, Errors |-> <<>>, hooks |-> hk]
    [] OTHER ->
         IF key \notin DOMAIN hk THEN
           [answer |-> "404", nil |-> FALSE, StatusCode |-> 404, err |-> "404 Not Found",
            typed |-> TRUE, Errors |-> <<>>, hooks |-> hk]
         ELSE IF FindHook(hk[key], endpoint) # 0 THEN
           [answer |-> "422 already exists", nil |-> FALSE, StatusCode |-> 422,
            err |-> "422 Validation Failed", typed |-> TRUE,
            Errors |-> <<HookAlreadyExists>>, hooks |-> hk]
         ELSE
           [answer |-> "201", nil |-> FALSE, StatusCode |-> 201, err |-> "",
            typed |-> FALSE, Errors |-> <<>>,
            hooks |-> [hk EXCEPT ![key] =
                         Append(hk[key], Hook(FreshID(hk[key]), StringURL(endpoint)))]]

createHookReturns_NeverAbsorbs(res) ==
  IF res.nil THEN "panic: nil pointer dereference" ELSE res.err

\* what createHook returns on the provider's answer; res.StatusCode is read
\* before err is looked at, so an absent response is a nil dereference
createHookReturns(res) ==
  IF res.nil THEN "panic: nil pointer dereference"
  ELSE IF res.StatusCode = 422 THEN
    IF ~res.typed THEN res.err
    ELSE IF \E i \in 1..Len(res.Errors) : ContainsAlreadyExists(res.Errors[i]) THEN ""
    ELSE res.err
  ELSE res.err

\* createHook(cli, ownerRepo): the error returned, the provider's answer (res)
\* and the provider's hooks
createHook(svc, ownerRepo, outcome, hk) ==
  LET o     == Split(ownerRepo)
      owner == o[1]
      repo  == o[2]
      key   == ToLowerStr(owner \o <<"/">> \o repo)
      res   == CreateHookResponse(svc.webhookEndpointURL, key, outcome, hk)
  IN [err |-> createHookReturns(res), res |-> res.answer, hooks |-> res.hooks]

-----------------------------------------------------------------------------
(* Register *)

NoWebhooksSpecified_IgnoringRemoved(reposForWebhooks, removedRepos) ==
  Len(reposForWebhooks) = 0

\* "The user didn't specify any webhooks": nothing to hook and nothing removed
NoWebhooksSpecified(reposForWebhooks, removedRepos) ==
  Len(reposForWebhooks) = 0 /\ Len(removedRepos) = 0

\* the loop over newRepos, from its i-th element on
RECURSIVE createHooks(_, _, _, _, _, _)
createHooks(svc, newRepos, i, e, hk, log) ==
  IF i > Len(newRepos) THEN [err |-> "", calls |-> log, hooks |-> hk]
  ELSE
    LET c == createHook(svc, newRepos[i],
                        IF i = e.failAt THEN e.kind ELSE "normal", hk)
        log2 == Append(log, Call("createHook", "", newRepos[i], c.err))
    IN IF c.err # "" THEN [err |-> c.err, calls |-> log2, hooks |-> c.hooks]
       ELSE createHooks(svc, newRepos, i + 1, e, c.hooks, log2)

RECURSIVE joinWebhookRoomsFrom_KeepsJoining(_, _, _, _)
joinWebhookRoomsFrom_KeepsJoining(order, i, failAt, log) ==
  IF i > Len(order) THEN
    [err |-> IF failAt \in 1..Len(order) THEN "JoinRoom failed" ELSE "", calls |-> log]
  ELSE joinWebhookRoomsFrom_KeepsJoining(order, i + 1, failAt,
         Append(log, Call("JoinRoom", order[i], <<>>, IF i = failAt THEN "error" ELSE "ok")))

\* the loop over s.Rooms, from the i-th room of the order on
RECURSIVE joinWebhookRoomsFrom(_, _, _, _)
joinWebhookRoomsFrom(order, i, failAt, log) ==
  IF i > Len(order) THEN [err |-> "", calls |-> log]
  ELSE IF i = failAt THEN
    [err |-> "JoinRoom failed", calls |-> Append(log, Call("JoinRoom", order[i], <<>>, "error"))]
  ELSE joinWebhookRoomsFrom(order, i + 1, failAt,
                            Append(log, Call("JoinRoom", order[i], <<>>, "ok")))

joinWebhookRooms(order, failAt) == joinWebhookRoomsFrom(order, 1, failAt, <<>>)

RegisterRun_JoinFirst(svc, oldSvc, e, hk) ==
  LET j == joinWebhookRooms(e.joinOrder, e.joinFailAt)
      fail(msg) == [err |-> msg, calls |-> j.calls, hooks |-> hk]
  IN
  IF j.err # "" THEN fail(j.err)
  ELSE IF svc.RealmID = "" \/ svc.ClientUserID = "" THEN
    fail("RealmID and ClientUserID is required")
  ELSE IF e.realm # "ok" THEN
    fail(e.realm)
  ELSE IF ~e.token THEN
    fail("User does not have a Github auth session with realm")
  ELSE
    LET d == Difference(repoList(e.it), OldRepoList(oldSvc, e.itOld)) IN
    IF NoWebhooksSpecified(repoList(e.it), d.onlyB) THEN
      fail("No webhooks specified.")
    ELSE
      LET c == createHooks(svc, d.onlyA, 1, e, hk, <<>>) IN
      [err |-> c.err, calls |-> j.calls \o c.calls, hooks |-> c.hooks]

RegisterRun(svc, oldSvc, e, hk) ==
  LET fail(msg) == [err |-> msg, calls |-> <<>>, hooks |-> hk] IN
  IF svc.RealmID = "" \/ svc.ClientUserID = "" THEN
    fail("RealmID and ClientUserID is required")
  ELSE IF e.realm # "ok" THEN
    fail(e.realm)
  ELSE IF ~e.token THEN
    fail("User does not have a Github auth session with realm")
  ELSE
    LET oldRepos         == OldRepoList(oldSvc, e.itOld)
        reposForWebhooks == repoList(e.it)
        d                == Difference(reposForWebhooks, oldRepos)
        newRepos         == d.onlyA
        removedRepos     == d.onlyB
    IN
    IF NoWebhooksSpecified(reposForWebhooks, removedRepos) THEN
      fail("No webhooks specified.")
    ELSE
      LET c == createHooks(svc, newRepos, 1, e, hk, <<>>) IN
      IF c.err # "" THEN c
      ELSE
        LET j == joinWebhookRooms(e.joinOrder, e.joinFailAt) IN
        [err |-> j.err, calls |-> c.calls \o j.calls, hooks |-> c.hooks]

RegisterEnv(realm, token, it, itOld, failAt, kind, joinOrder, joinFailAt) ==
  [realm |-> realm, token |-> token, it |-> it, itOld |-> itOld, failAt |-> failAt,
   kind |-> kind, joinOrder |-> joinOrder, joinFailAt |-> joinFailAt]

\* what Register may meet: a realm that does not load, a user without a token,
\* or any visiting order of the maps, any one failing createHook or JoinRoom
\* (of oldRepos Register reads the members and the length, never the order)
RegisterEnvs(svc, oldSvc) ==
  LET it0  == AnyOrder(svc.Rooms)
      old0 == AnyOrder(oldSvc.Rooms)
      jo0  == CHOOSE o \in Perms(DOMAIN svc.Rooms) : TRUE
      n    == Len(Difference(repoList(it0), OldRepoList(oldSvc, old0)).onlyA)
  IN
  {RegisterEnv(r, TRUE, it0, old0, 0, "normal", jo0, 0) :
      r \in {"realm not found", "Realm is not of type github"}}
  \cup {RegisterEnv("ok", FALSE, it0, old0, 0, "normal", jo0, 0)}
  \cup UNION {
         {RegisterEnv("ok", TRUE, it, old0, 0, "normal", jo, jf) :
             it \in IterOrders(svc.Rooms), jo \in Perms(DOMAIN svc.Rooms)}
         \cup
         {RegisterEnv("ok", TRUE, it, old0, f[1], f[2], jo0, 0) :
             it \in IterOrders(svc.Rooms), f \in (1..n) \X CreateFailKinds}
         : jf \in 0..Cardinality(DOMAIN svc.Rooms)}

\* the service manager stores the new service once Register has succeeded
StoreService(err, svc, cur) == IF err = "" THEN svc ELSE cur

RegisterServices ==
  {githubWebhookService(c[1], c[2], rooms) :
     c \in {<<"github-realm", "@alice">>, <<"", "@alice">>, <<"github-realm", "">>},
     rooms \in RoomsMaps({Repo_ab, Repo_Ab, Name_x, Name_a_}, {<<"push">>})}

\* Register, for a new service drawn from Services
RegisterOf(Services) ==
  /\ pc = "idle"
  /\ \E svc \in Services :
     \E e \in RegisterEnvs(svc, db) :
        LET out == RegisterRun(svc, db, e, hooks) IN
        /\ s' = svc
        /\ old' = db
        /\ calls' = out.calls
        /\ hooks' = out.hooks
        /\ ret' = [op |-> "Register", status |-> 0, err |-> out.err]
        /\ db' = StoreService(out.err, svc, db)
        /\ pc' = IF out.err = "" THEN "registered" ELSE "done"
        /\ UNCHANGED <<req, inflight>>

Register == RegisterOf(RegisterServices)

-----------------------------------------------------------------------------
(* PostRegister *)

RECURSIVE deleteHooks_StopAtError(_, _, _, _, _, _)
deleteHooks_StopAtError(svc, removedRepos, i, del, hk, log) ==
  IF i > Len(removedRepos) THEN [calls |-> log, hooks |-> hk]
  ELSE
    LET segs == Split(removedRepos[i])
        d    == deleteHook(svc, segs[1], segs[2], del[i], hk)
    IN IF d.err # "" THEN [calls |-> log \o d.calls, hooks |-> d.hooks]
       ELSE deleteHooks_StopAtError(svc, removedRepos, i + 1, del, d.hooks, log \o d.calls)

\* the loop over removedRepos, from its i-th element on
RECURSIVE deleteHooks(_, _, _, _, _, _)
deleteHooks(svc, removedRepos, i, del, hk, log) ==
  IF i > Len(removedRepos) THEN [calls |-> log, hooks |-> hk]
  ELSE
    LET segs == Split(removedRepos[i])
        d    == deleteHook(svc, segs[1], segs[2], del[i], hk)
    IN deleteHooks(svc, removedRepos, i + 1, del, d.hooks, log \o d.calls)

NoReposTracked_Inverted(newRepos) == Len(newRepos) # 0

NoReposTracked_OffByOne(newRepos) == Len(newRepos) <= 1

\* "we are not tracking any repos any more", so the service removes itself
NoReposTracked(newRepos) == Len(newRepos) = 0

\* e.del says what each deleteHook meets, e.dbOK whether DeleteService succeeds
PostRegisterRun(svc, oldSvc, e, hk) ==
  IF oldSvc.kind \notin {"nil", "github-webhook"} THEN
    [calls |-> <<>>, hooks |-> hk, removed |-> FALSE]
  ELSE
    LET oldRepos     == OldRepoList(oldSvc, e.itOld)
        newRepos     == repoList(e.it)
        removedRepos == Difference(newRepos, oldRepos).onlyB
        d            == deleteHooks(svc, removedRepos, 1, e.del, hk, <<>>)
    IN
    IF NoReposTracked(newRepos) THEN
      [calls |-> Append(d.calls,
                        Call("DeleteService", "", <<>>, IF e.dbOK THEN "ok" ELSE "error")),
       hooks |-> d.hooks, removed |-> e.dbOK]
    ELSE
      [calls |-> d.calls, hooks |-> d.hooks, removed |-> FALSE]

\* what PostRegister may meet: any visiting order of the old service's maps,
\* any outcome of each deleteHook and, when it is called, of DeleteService
\* (of newRepos PostRegister reads the members and the length, never the order)
PostRegisterEnvs(svc, oldSvc) ==
  LET it0 == AnyOrder(svc.Rooms)
      n   == Len(Difference(repoList(it0),
                            OldRepoList(oldSvc, AnyOrder(oldSvc.Rooms))).onlyB)
  IN {[it |-> it0, itOld |-> itOld, del |-> del, dbOK |-> ok] :
        itOld \in IterOrders(oldSvc.Rooms),
        del \in [1..n -> DeleteOutcomes],
        ok \in IF repoList(it0) = <<>> THEN BOOLEAN ELSE {TRUE}}

PostRegister ==
  /\ pc = "registered"
  /\ \E e \in PostRegisterEnvs(s, old) :
        LET out == PostRegisterRun(s, old, e, hooks) IN
        /\ calls' = out.calls
        /\ hooks' = out.hooks
        /\ ret' = [op |-> "PostRegister", status |-> 0, err |-> ""]
        /\ db' = IF out.removed THEN NoService ELSE db
        /\ pc' = "done"
        /\ UNCHANGED <<s, old, req, inflight>>

-----------------------------------------------------------------------------
(* Reconciliation: Register, then PostRegister, one configuration change at a time *)

NoHooks == [k \in ProviderRepos |-> <<>>]

Init ==
  /\ db \in {NoService, echoService}
  /\ s = NoService
  /\ old = NoService
  /\ pc = "idle"
  /\ hooks = NoHooks
  /\ req = NoRequest
  /\ calls = <<>>
  /\ ret = NoReturn
  /\ inflight = NoDelivery

Next == Register \/ PostRegister \/ EndRequest

Spec == Init /\ [][Next]_vars

-----------------------------------------------------------------------------
(* Deliveries to a stored service *)

AllHooked == [k \in ProviderRepos |-> <<Hook(1, StringURL(WebhookEndpointURL))>>]

\* a service that stays stored lists at least one repo: Register refuses one
\* that lists none and removes none, and PostRegister removes one that lists none
WebhookServices ==
  {githubWebhookService("github-realm", "@alice", rooms) :
     rooms \in {m \in RoomsMaps({Repo_ab, Repo_Ab, Repo_cd, Name_x}, EventLists) :
                  repoList(AnyOrder(m)) # <<>>}}

InitWebhook ==
  /\ db \in WebhookServices
  /\ s = NoService
  /\ old = NoService
  /\ pc = "idle"
  /\ hooks = AllHooked
  /\ req = NoRequest
  /\ calls = <<>>
  /\ ret = NoReturn
  /\ inflight = NoDelivery

NextWebhook == OnReceiveWebhook \/ EndRequest

SpecWebhook == InitWebhook /\ [][NextWebhook]_vars

-----------------------------------------------------------------------------
(* Reconciliations after a hook was deleted at the provider by hand *)

\* configurations of the two repos, each spelt one way, with a valid realm and user
ToggleServices ==
  {githubWebhookService("github-realm", "@alice", rooms) :
     rooms \in RoomsMaps({Repo_ab, Repo_cd}, {<<"push">>})}

\* the hooks a stored configuration has once a/b's was deleted by hand
HooksWithoutAB(svc) ==
  [k \in ProviderRepos |->
     IF k # Repo_ab /\ k \in Range(repoList(AnyOrder(svc.Rooms)))
     THEN <<Hook(1, StringURL(WebhookEndpointURL))>> ELSE <<>>]

\* a/b is configured and its hook is gone
InitLost ==
  /\ db \in {svc \in ToggleServices : Repo_ab \in Range(repoList(AnyOrder(svc.Rooms)))}
  /\ s = NoService
  /\ old = NoService
  /\ pc = "idle"
  /\ hooks = HooksWithoutAB(db)
  /\ req = NoRequest
  /\ calls = <<>>
  /\ ret = NoReturn
  /\ inflight = NoDelivery

RegisterToggle == RegisterOf(ToggleServices)

NextToggle == RegisterToggle \/ PostRegister \/ EndRequest

SpecToggle == InitLost /\ [][NextToggle]_vars

-----------------------------------------------------------------------------
(* Deliveries handled while the configuration is being reconciled: the      *)
(* handler runs on the service it loaded when the delivery arrived, and its *)
(* deleteHook call reaches the provider some time after its loops are over  *)

\* the provider delivers for the repos that hold a hook with the endpoint
RaceRequests(hk) ==
  {[verified |-> TRUE, code |-> 0, evType |-> "push", FullName |-> n] :
      n \in {k \in ProviderRepos : FindHook(hk[k], WebhookEndpointURL) # 0}}

\* the handler up to its deleteHook call, for a delivery that reaches it: no
\* binding of the stored service matches the repo
WebhookArrive ==
  /\ inflight.state = "none"
  /\ db.kind = "github-webhook"
  /\ \E r \in RaceRequests(hooks) :
        /\ Deletes(db, r)
        /\ ~repoExistsInConfig(db, r, AnyOrder(db.Rooms))
        /\ inflight' = [state |-> "deleting", svc |-> db, segs |-> Split(r.FullName)]
  /\ UNCHANGED <<db, s, old, pc, hooks, req, calls, ret>>

\* the handler's deleteHook call and its return
WebhookDelete ==
  /\ inflight.state = "deleting"
  /\ \E e \in DeleteOutcomes :
        LET d == deleteHook(inflight.svc, inflight.segs[1], inflight.segs[2], e, hooks) IN
        hooks' = d.hooks
  /\ inflight' = NoDelivery
  /\ UNCHANGED <<db, s, old, pc, req, calls, ret>>

NextRace == RegisterToggle \/ PostRegister \/ EndRequest \/ WebhookArrive \/ WebhookDelete

SpecRace == Init /\ [][NextRace]_vars

-----------------------------------------------------------------------------
(* createHook and deleteHook called on any hooks the provider may hold *)

MaxHooks == 2

NilURL == [kind |-> "nil", val |-> ""]

NumberURL == [kind |-> "number", val |-> "42"]

\* the config urls of hooks that are not this service's: another address, no
\* url, a url that is not a string
ForeignURLs == {StringURL("https://other/hook"), NilURL, NumberURL}

OwnURL == StringURL(WebhookEndpointURL)

\* the hooks of one repo: at most n of them, at most one with the endpoint
HookLists(n) ==
  {[i \in 1..Len(u) |-> Hook(i, u[i])] :
     u \in {v \in UNION {[1..m -> ForeignURLs \cup {OwnURL}] : m \in 0..n} :
              Cardinality({i \in 1..Len(v) : v[i] = OwnURL}) <= 1}}

\* the names the hooks are made and deleted under
HookNames == {Repo_ab, Repo_Ab, Repo_cd, Name_a_}

InitHooks ==
  /\ db = NoService
  /\ s = githubWebhookService("github-realm", "@alice", <<>>)
  /\ old = NoService
  /\ pc = "idle"
  /\ hooks \in {[k \in ProviderRepos |-> IF k = Repo_ab THEN l ELSE m] :
                  l \in HookLists(MaxHooks), m \in HookLists(1)}
  /\ req = NoRequest
  /\ calls = <<>>
  /\ ret = NoReturn
  /\ inflight = NoDelivery

CallCreateHook ==
  \E ownerRepo \in HookNames, outcome \in {"normal"} \cup CreateFailKinds :
     LET c == createHook(s, ownerRepo, outcome, hooks) IN
     /\ calls' = <<Call("createHook", "", ownerRepo, c.err),
                    Call("CreateHook", "", ownerRepo, c.res)>>
     /\ hooks' = c.hooks
     /\ ret' = [op |-> "createHook", status |-> 0, err |-> c.err]
     /\ UNCHANGED <<db, s, old, pc, req, inflight>>

CallDeleteHook ==
  \E name \in HookNames, e \in DeleteOutcomes :
     LET segs == Split(name)
         d    == deleteHook(s, segs[1], segs[2], e, hooks)
     IN
     /\ calls' = d.calls
     /\ hooks' = d.hooks
     /\ ret' = [op |-> "deleteHook", status |-> 0, err |-> d.err]
     /\ UNCHANGED <<db, s, old, pc, req, inflight>>

NextHooks == CallCreateHook \/ CallDeleteHook

SpecHooks == InitHooks /\ [][NextHooks]_vars

-----------------------------------------------------------------------------
(* Properties of OnReceiveWebhook, checked under SpecWebhook *)

CallsOf(fn) == {i \in 1..Len(calls) : calls[i].fn = fn}

SameIgnoringCase(a, b) == ToLowerStr(a) = ToLowerStr(b)

\* room R holds a binding for the delivered repo
References(svc, R, r) ==
  /\ R \in DOMAIN svc.Rooms
  /\ \E k \in DOMAIN svc.Rooms[R].Repos : SameIgnoringCase(k, r.FullName)

\* room R holds a binding for the delivered repo that lists the delivered event
Subscribed(svc, R, r) ==
  /\ R \in DOMAIN svc.Rooms
  /\ \E k \in DOMAIN svc.Rooms[R].Repos :
        /\ SameIgnoringCase(k, r.FullName)
        /\ r.evType \in Range(svc.Rooms[R].Repos[k].Events)

\* exactly two '/'-separated segments, neither of them empty
TwoSegments(n) ==
  \E i \in 2..(Len(n) - 1) :
     /\ n[i] = "/"
     /\ \A j \in (1..Len(n)) \ {i} : n[j] # "/"

\* a verified delivery has been routed
Routed == ret.op = "OnReceiveWebhook" /\ req.verified

\* C1: a verified delivery is sent to room R if and only if R has a binding
\* whose key equals the delivered repo full name ignoring letter case and whose
\* event list contains the delivered event type.
C1_NotifiesExactlySubscribedRooms ==
  Routed =>
    \A R \in RoomIDs :
       (\E i \in CallsOf("SendMessageEvent") : calls[i].room = R) <=> Subscribed(s, R, req)

\* a push for a/b reaches !r1, bound to A/b for push, and not !r2, which is
\* bound to the repo for other events
C1_Witness ==
  /\ Routed
  /\ req.FullName = Repo_ab /\ req.evType = "push"
  /\ "!r1" \in DOMAIN s.Rooms /\ DOMAIN s.Rooms["!r1"].Repos = {Repo_Ab}
  /\ References(s, "!r2", req)
  /\ {calls[i].room : i \in CallsOf("SendMessageEvent")} = {"!r1"}

\* C2: for a verified delivery whose repo full name is a well-formed
\* owner/repo, exactly one deleteHook attempt is made when no binding matches
\* the repo and none when some binding matches it, and the response is 200
\* either way, whatever the delete meets.
C2_OrphanDeletedOnceReferencedNever ==
  (Routed /\ TwoSegments(req.FullName)) =>
    /\ Cardinality(CallsOf("deleteHook")) =
         (IF \E R \in RoomIDs : References(s, R, req) THEN 0 ELSE 1)
    /\ ret.status = 200

\* an orphan's hook is looked for, not found, and the response is 200
C2_Witness ==
  /\ Routed
  /\ TwoSegments(req.FullName)
  /\ \A R \in RoomIDs : ~References(s, R, req)
  /\ \E i \in CallsOf("deleteHook") : calls[i].res = "Failed to find hook with endpoint"
  /\ ret.status = 200

\* C3: a verified delivery with no matching binding whose repo full name does
\* not split into exactly two non-empty '/'-separated segments is answered 400
\* and no deleteHook attempt is made.
C3_MalformedRepoIs400 ==
  (Routed /\ (\A R \in RoomIDs : ~References(s, R, req)) /\ ~TwoSegments(req.FullName)) =>
    /\ ret.status = 400
    /\ CallsOf("deleteHook") = {}

\* C4: when a send to one subscribed room fails, the send to every other
\* subscribed room is still attempted, and the response is 200 whatever the
\* sends' outcomes.
C4_FanOutContinuesOnError ==
  Routed =>
    /\ \A R \in RoomIDs :
          Subscribed(s, R, req) =>
            \E j \in CallsOf("SendMessageEvent") : calls[j].room = R
    /\ Cardinality(CallsOf("SendMessageEvent")) >=
         Cardinality({R \in RoomIDs : Subscribed(s, R, req)})
    /\ (\E R \in RoomIDs : Subscribed(s, R, req)) => ret.status = 200

\* the first send fails and the other room is sent to all the same
C4_Witness ==
  /\ Routed
  /\ Len(calls) >= 2
  /\ calls[1].fn = "SendMessageEvent" /\ calls[1].res = "error"
  /\ calls[2].fn = "SendMessageEvent" /\ calls[2].room # calls[1].room
  /\ ret.status = 200

\* C5: when verification or parsing of the delivery fails, the response is
\* the status code the verification returned, and nothing else is done: no
\* notification is sent and no deleteHook is attempted.
C5_RejectedWithGivenCodeAndNoAction ==
  (ret.op = "OnReceiveWebhook" /\ ~req.verified) =>
    /\ ret.status = req.code
    /\ calls = <<>>

C5_Witness ==
  /\ ret.op = "OnReceiveWebhook"
  /\ ~req.verified
  /\ ret.status = 403
  /\ calls = <<>>

-----------------------------------------------------------------------------
(* Properties of Register and PostRegister, checked under Spec *)

OneSlash(k) ==
  \E i \in 1..Len(k) : k[i] = "/" /\ \A j \in (1..Len(k)) \ {i} : k[j] # "/"

\* the repos of a configuration: the keys of its rooms that hold one '/'
ReposOf(svc) ==
  {k \in UNION {DOMAIN svc.Rooms[r].Repos : r \in DOMAIN svc.Rooms} : OneSlash(k)}

Added == ReposOf(s) \ ReposOf(old)

Removed == ReposOf(old) \ ReposOf(s)

RealmOrCredentialErrors ==
  {"RealmID and ClientUserID is required", "realm not found",
   "Realm is not of type github", "User does not have a Github auth session with realm"}

\* C6: with a valid realm and credential, Register fails with the "no
\* webhooks" error exactly when the new configuration has no repos and no repo
\* of the old one is removed; when the new configuration has no repos and the
\* old one had some, Register creates no hook and succeeds if the joins do.
C6_NoWebhooksGuard ==
  (ret.op = "Register" /\ ret.err \notin RealmOrCredentialErrors) =>
    /\ (ret.err = "No webhooks specified.") <=> (ReposOf(s) = {} /\ Removed = {})
    /\ (ReposOf(s) = {} /\ ReposOf(old) # {}) =>
          /\ CallsOf("createHook") = {}
          /\ (\A i \in CallsOf("JoinRoom") : calls[i].res = "ok") => ret.err = ""

\* the last repos are removed: Register joins the room and succeeds
C6_Witness ==
  /\ ret.op = "Register"
  /\ ReposOf(s) = {} /\ ReposOf(old) # {}
  /\ CallsOf("JoinRoom") # {}
  /\ ret.err = ""

\* C7: a Register that fails with a configuration or credential error has
\* called neither createHook nor JoinRoom.
C7_ConfigErrorHasNoSideEffect ==
  (ret.op = "Register"
     /\ ret.err \in RealmOrCredentialErrors \cup {"No webhooks specified."}) =>
    /\ CallsOf("createHook") = {}
    /\ CallsOf("JoinRoom") = {}
    /\ calls = <<>>

\* a configuration with a room and no repo is refused before the room is joined
C7_Witness ==
  /\ ret.op = "Register"
  /\ ret.err = "No webhooks specified."
  /\ DOMAIN s.Rooms # {}
  /\ calls = <<>>

\* C8: a successful Register has called createHook exactly once for each repo
\* the new configuration adds to the old one and for no other repo, and has
\* called nothing that deletes a hook.
C8_CreatesExactlyTheAddedRepos ==
  (ret.op = "Register" /\ ret.err = "") =>
    /\ \A i \in CallsOf("createHook") : calls[i].repo \in Added
    /\ \A k \in Added : Cardinality({i \in CallsOf("createHook") : calls[i].repo = k}) = 1
    /\ CallsOf("deleteHook") \cup CallsOf("ListHooks") \cup CallsOf("DeleteHook") = {}

\* a/b, new to the configuration, is bound in both rooms: one createHook call
C8_Witness ==
  /\ ret.op = "Register" /\ ret.err = ""
  /\ DOMAIN s.Rooms = {"!r1", "!r2"}
  /\ \A r \in DOMAIN s.Rooms : Repo_ab \in DOMAIN s.Rooms[r].Repos
  /\ Repo_ab \notin ReposOf(old)
  /\ Cardinality(CallsOf("createHook")) = 1

\* C9: whenever every createHook call that Register issues succeeds (and the
\* realm, the credential and the configuration are accepted), Register
\* returns no error.
C9_AllHooksMadeImpliesSuccess ==
  (/\ ret.op = "Register"
   /\ ret.err \notin RealmOrCredentialErrors \cup {"No webhooks specified."}
   /\ \A i \in CallsOf("createHook") : calls[i].res = "") =>
    ret.err = ""

\* C10: PostRegister attempts deleteHook once for every repo of the old
\* configuration that the new one lacks and for no other repo, whatever each
\* attempt returns; a failed attempt does not keep DeleteService from being
\* called when the new configuration has no repos; no hook is created.
C10_DeletesExactlyTheRemovedRepos ==
  (ret.op = "PostRegister") =>
    /\ \A i \in CallsOf("deleteHook") : calls[i].repo \in Removed
    /\ \A k \in Removed : Cardinality({i \in CallsOf("deleteHook") : calls[i].repo = k}) = 1
    /\ CallsOf("createHook") = {}
    /\ (ReposOf(s) = {} /\ old.kind # "echo") => CallsOf("DeleteService") # {}

\* the first deleteHook fails, the second repo's is attempted all the same,
\* and the service removes itself
C10_Witness ==
  /\ ret.op = "PostRegister"
  /\ Cardinality(CallsOf("deleteHook")) = 2
  /\ calls[1].fn = "deleteHook" /\ calls[1].res # ""
  /\ CallsOf("DeleteService") # {}

-----------------------------------------------------------------------------
(* Self-pruning, checked under Spec *)

\* PostRegister has run for a new configuration with no rooms
PrunedToNoRooms == ret.op = "PostRegister" /\ DOMAIN s.Rooms = {}

DeleteAttempted(k) == \E i \in CallsOf("deleteHook") : calls[i].repo = k

\* C11 as stated: after Register and PostRegister have taken the old
\* configuration to a new one with zero rooms, the configuration is no longer
\* in storage and deleteHook has been attempted for every repo of the old one.
C11_SelfPruned ==
  PrunedToNoRooms =>
    /\ db = NoService
    /\ \A k \in ReposOf(old) : DeleteAttempted(k)

\* C11, amended: after Register and PostRegister have taken the old
\* configuration to a new one with zero rooms, deleteHook has been attempted
\* for every repo of the old one and DeleteService has been called once; the
\* configuration is gone from storage when that call succeeded and is still
\* stored when it failed.
C11_SelfPruneAttempted ==
  PrunedToNoRooms =>
    /\ \A k \in ReposOf(old) : DeleteAttempted(k)
    /\ Cardinality(CallsOf("DeleteService")) = 1
    /\ \A i \in CallsOf("DeleteService") :
          /\ i = Len(calls)
          /\ calls[i].res = "ok" => db = NoService
          /\ calls[i].res = "error" => db = s

\* both repos of the old configuration are looked for and the service is gone
C11_Witness ==
  /\ PrunedToNoRooms
  /\ Cardinality(ReposOf(old)) = 2
  /\ \A k \in ReposOf(old) : DeleteAttempted(k)
  /\ calls[Len(calls)].fn = "DeleteService" /\ calls[Len(calls)].res = "ok"
  /\ db = NoService

-----------------------------------------------------------------------------
(* Properties of createHook and deleteHook, checked under SpecHooks *)

\* the hooks of the repo named n whose url is the endpoint
OwnHooks(hk, n) ==
  {i \in 1..Len(hk[ToLowerStr(n)]) : hk[ToLowerStr(n)][i].url = OwnURL}

\* the provider acted on the request: it made the hook or refused it because
\* the hook is there or the repo is not
ProviderActed(answer) == answer \in {"201", "422 already exists", "404"}

\* C12: when createHook has returned success for a repo and is called again
\* for the same repo (and the provider acts on the request), the second call
\* returns success too and the provider then holds exactly one hook with the
\* endpoint on that repo.
C12_IdempotentCreate ==
  [][(/\ ret.op = "createHook" /\ ret.err = ""
      /\ ret'.op = "createHook"
      /\ calls'[1].repo = calls[1].repo
      /\ ProviderActed(calls'[2].res)) =>
       /\ ret'.err = ""
       /\ Cardinality(OwnHooks(hooks', calls'[1].repo)) = 1]_vars

\* the hook of a/b is one createHook has made (no initial hook has its ID) and
\* the last call was refused as a duplicate and returned success
C12_Witness ==
  /\ ret.op = "createHook" /\ ret.err = ""
  /\ calls[1].repo = Repo_ab
  /\ calls[2].res = "422 already exists"
  /\ \E i \in OwnHooks(hooks, Repo_ab) : hooks[Repo_ab][i].ID = Len(hooks[Repo_ab])
  /\ Cardinality(OwnHooks(hooks, Repo_ab)) = 1
  /\ Len(hooks[Repo_ab]) = MaxHooks + 1

-----------------------------------------------------------------------------
(* Toggling a repo whose hook was lost, checked under SpecToggle *)

\* PostRegister has completed a reconciliation from a configuration without
\* a/b to one with it
ToggledOn ==
  /\ ret.op = "PostRegister"
  /\ Repo_ab \in ReposOf(s)
  /\ Repo_ab \notin ReposOf(old)

\* C13: a/b's hook was deleted at the provider while a/b stayed configured;
\* whenever a reconciliation then takes a configuration without a/b to one
\* with it (a reconciliation to one without it came before: every run starts
\* with a/b configured), the hook of a/b is present at its end, whatever the
\* deleteHook calls in between have met.
C13_ToggleRecreatesLostHook ==
  ToggledOn => Cardinality(OwnHooks(hooks, Repo_ab)) = 1

\* a/b was taken out of a configuration that kept c/d and put back: its hook
\* is there again, next to c/d's
C13_Witness ==
  /\ ToggledOn
  /\ ReposOf(old) = {Repo_cd}
  /\ ReposOf(s) = {Repo_ab, Repo_cd}
  /\ OwnHooks(hooks, Repo_ab) # {}
  /\ OwnHooks(hooks, Repo_cd) # {}
  /\ db = s

-----------------------------------------------------------------------------
(* The repos of a configuration, checked under Spec *)

KeysOf(svc) == UNION {DOMAIN svc.Rooms[r].Repos : r \in DOMAIN svc.Rooms}

\* C14: the repo list of the configuration Register is called on is exactly
\* the set of its keys that split into exactly two non-empty segments, and
\* no createHook or deleteHook of a reconciliation is called for a name with
\* an empty owner or an empty repo.
C14_OnlyWellFormedRepos ==
  (ret.op \in {"Register", "PostRegister"}) =>
    /\ Range(repoList(AnyOrder(s.Rooms))) = {k \in KeysOf(s) : TwoSegments(k)}
    /\ \A i \in CallsOf("createHook") \cup CallsOf("deleteHook") :
          /\ TwoSegments(calls[i].repo)
          /\ Split(calls[i].repo)[1] # <<>>
          /\ Split(calls[i].repo)[2] # <<>>

-----------------------------------------------------------------------------
(* The order of Register's calls, checked under Spec *)

-----------------------------------------------------------------------------
(* The outcomes of createHook and deleteHook, checked under SpecHooks *)

\* C16: createHook returns success exactly when the provider has made the
\* hook or has refused it with a 422 whose details say it already exists; on
\* every other answer, an absent response included, it returns an error and
\* does not crash.
C16_SuccessExactlyOnCreatedOrExists ==
  (ret.op = "createHook") =>
    /\ (ret.err = "") <=> (calls[2].res \in {"201", "422 already exists"})
    /\ ret.err # "panic: nil pointer dereference"

CallsIn(log, fn) == {i \in 1..Len(log) : log[i].fn = fn}

\* the hooks of a list whose url is not the endpoint, in their order
ForeignHooks(list) ==
  LET NotOwn(h) == h.url # OwnURL IN SelectSeq(list, NotOwn)

\* C17: a deleteHook call removes at most one hook, and only one of the named
\* repo whose url is the endpoint: hooks with another, no or a non-string url
\* and the hooks of other repos stay as they are. When the repo has no hook
\* with the endpoint, deleteHook returns an error without calling DeleteHook;
\* without an authenticated client it returns an error without calling
\* ListHooks or DeleteHook.
C17_DeletesOnlyItsOwnHook ==
  [][(ret'.op = "deleteHook") =>
       LET key == ToLowerStr(calls'[1].repo) IN
       /\ \A k \in ProviderRepos \ {key} : hooks'[k] = hooks[k]
       /\ key \in ProviderRepos =>
             /\ Len(hooks[key]) - Len(hooks'[key]) \in {0, 1}
             /\ ForeignHooks(hooks'[key]) = ForeignHooks(hooks[key])
             /\ Len(hooks'[key]) < Len(hooks[key]) =>
                   /\ ret'.err = ""
                   /\ Cardinality(CallsIn(calls', "DeleteHook")) = 1
             /\ OwnHooks(hooks, key) = {} =>
                   /\ ret'.err # ""
                   /\ CallsIn(calls', "DeleteHook") = {}
                   /\ hooks' = hooks
       /\ ret'.err = "no authenticated client exists for user ID" =>
             /\ CallsIn(calls', "ListHooks") \cup CallsIn(calls', "DeleteHook") = {}
             /\ hooks' = hooks]_vars

\* the hook with the endpoint has been deleted from a repo that keeps a hook
\* without a url
C17_Witness ==
  /\ ret.op = "deleteHook" /\ ret.err = ""
  /\ calls[1].repo = Repo_Ab
  /\ \E i \in CallsOf("DeleteHook") : calls[i].res = "ok"
  /\ OwnHooks(hooks, Repo_ab) = {}
  /\ \E i \in 1..Len(hooks[Repo_ab]) : hooks[Repo_ab][i].url = NilURL
  /\ hooks[Repo_ab][1].ID = 1

-----------------------------------------------------------------------------
(* When the service removes itself, checked under Spec *)

\* C18 as stated: PostRegister never deletes the configuration from storage
\* when the new configuration still has at least one room.
C18_NoPruneWhileRoomsRemain ==
  (ret.op = "PostRegister" /\ DOMAIN s.Rooms # {}) =>
    /\ CallsOf("DeleteService") = {}
    /\ db = s

\* C18, amended: PostRegister never deletes the configuration from storage
\* when the new configuration still has at least one repo; it calls
\* DeleteService exactly when the new configuration has no repo, whether or
\* not it still has rooms.
C18_NoPruneWhileReposRemain ==
  (ret.op = "PostRegister" /\ old.kind # "echo") =>
    /\ ReposOf(s) # {} => (CallsOf("DeleteService") = {} /\ db = s)
    /\ ReposOf(s) = {} => Cardinality(CallsOf("DeleteService")) = 1

\* one of two repos is removed: its hook is looked for and the service stays
C18_Witness ==
  /\ ret.op = "PostRegister"
  /\ Cardinality(ReposOf(old)) = 2
  /\ Cardinality(ReposOf(s)) = 1
  /\ CallsOf("deleteHook") # {}
  /\ CallsOf("DeleteService") = {}
  /\ db = s

-----------------------------------------------------------------------------
(* The hooks of the stored configuration, checked under Spec *)

\* C19: once a reconciliation has completed (no hook is deleted at the
\* provider by hand, no delivery is handled), every repo of the stored
\* configuration has the hook with the endpoint at the provider, which names
\* repos without regard to letter case.
C19_ConfiguredReposAreHooked ==
  (ret.op = "PostRegister" /\ db.kind = "github-webhook") =>
    \A k \in ReposOf(db) :
       /\ ToLowerStr(k) \in DOMAIN hooks
       /\ OwnHooks(hooks, k) # {}

-----------------------------------------------------------------------------
(* Deliveries against a reconciliation, checked under SpecRace *)

\* C20: the deleteHook call of a delivery, whenever it comes between the
\* steps of a reconciliation, leaves the hook of every repo of the stored
\* configuration in place.
C20_DeliveryKeepsConfiguredHooks ==
  [][(inflight.state = "deleting" /\ inflight'.state = "none") =>
       \A k \in ReposOf(db) :
          OwnHooks(hooks, k) # {} => OwnHooks(hooks', k) # {}]_vars

====
